---- MODULE Spec2Model ----
(***************************************************************************)
(* Model of src/src/differentiable.rs: a reverse-mode automatic            *)
(* differentiation engine.  Nodes (Differentiable) live in an arena `heap`;*)
(* a node id stands for the identity of one Differentiable value, whether  *)
(* it is still held by value by the caller (`owned`) or has been moved     *)
(* into an Rc<RefCell<..>> (every other id).  T is modelled by the         *)
(* integers.                                                               *)
(***************************************************************************)
EXTENDS Integers, Sequences, FiniteSets, TLC

VARIABLES heap, owned, handles, hist, last, clones, panicked

vars == <<heap, owned, handles, hist, last, clones, panicked>>

\* ---------------------------------------------------------------- bounds
\* nodes allocated, backward calls made, clones taken in one run
MaxNodes == 5
MaxCalls == 2
MaxClones == 1
\* nodes and children per node when nodes are written as struct literals
MaxLiteralNodes == 3
MaxArity == 3

\* raw values a caller lifts
Values == {2, 3}

\* ------------------------------------------------------- program constants
\* T::zero() and T::one()
Zero == 0
One == 1

\* ------------------------------------------------------------ data model
\* struct Differentiable { value, gradient, children, grad_fn }
Differentiable(value, gradient, children, grad_fn) ==
    [value |-> value, gradient |-> gradient, children |-> children, grad_fn |-> grad_fn]

Ids(h) == 1..Len(h)

\* ------------------------------------------------------------ conversions
\* a lift that starts the gradient at one
from_gradient_one(value) == Differentiable(value, One, <<>>, "from")

\* impl From<T>: a leaf
from(value) == Differentiable(value, Zero, <<>>, "from")

\* a product that records its operands in the opposite order
mul_swapped(h, a, b) == Differentiable(h[a].value * h[b].value, Zero, <<b, a>>, "mul")

\* impl Mul<Differentiable>: the operands a and b are the ids the two moved
\* values get inside their new Rc cells
mul(h, a, b) == Differentiable(h[a].value * h[b].value, Zero, <<a, b>>, "mul")

\* the two closures stored in grad_fn, applied to node diff.  The "mul"
\* closure indexes children[1] and children[0] and so panics on a node
\* with fewer than two children.
grad_fn(h, diff) ==
    IF h[diff].grad_fn = "from"
    THEN [panic |-> FALSE, out |-> <<>>]
    ELSE IF Len(h[diff].children) < 2
         THEN [panic |-> TRUE, out |-> <<>>]
         ELSE [panic |-> FALSE,
               out |-> << h[diff].value * h[h[diff].children[2]].value,
                          h[diff].value * h[h[diff].children[1]].value >>]

\* ------------------------------------------------------- topology_sort
RECURSIVE topology_sort(_, _)
RECURSIVE SortChildren(_, _)
\* the for loop of topology_sort over the children
SortChildren(h, cs) ==
    IF cs = <<>> THEN <<>>
    ELSE topology_sort(h, Head(cs)) \o SortChildren(h, Tail(cs))

topology_sort(h, diff) == SortChildren(h, h[diff].children) \o <<diff>>

Range(s) == {s[i] : i \in 1..Len(s)}

Reverse(s) == [i \in 1..Len(s) |-> s[Len(s) + 1 - i]]

\* ------------------------------------------------------------- backward
\* a seed that reaches every node of the arena
SeedAll(h, root) == [n \in 1..Len(h) |-> [h[n] EXCEPT !.gradient = @ + One]]

\* differentiable.borrow_mut().gradient += T::one()
Seed(h, root) == [h EXCEPT ![root].gradient = @ + One]

Min(a, b) == IF a < b THEN a ELSE b

\* an inner loop that assigns instead of adding
RECURSIVE AccumulateOverwrite(_, _, _, _)
AccumulateOverwrite(h, children, grads, i) ==
    IF i > Min(Len(children), Len(grads)) THEN h
    ELSE AccumulateOverwrite([h EXCEPT ![children[i]].gradient = grads[i]],
                             children, grads, i + 1)

\* the inner loop: children.iter().zip(grads.iter()), child.gradient += grad
RECURSIVE Accumulate(_, _, _, _)
Accumulate(h, children, grads, i) ==
    IF i > Min(Len(children), Len(grads)) THEN h
    ELSE Accumulate([h EXCEPT ![children[i]].gradient = @ + grads[i]],
                    children, grads, i + 1)

\* the outer loop over sorted.iter().rev(); st carries the heap, the nodes
\* whose grad_fn has been invoked so far and whether a panic unwound the call
RECURSIVE Propagate(_, _)
Propagate(st, order) ==
    IF order = <<>> THEN st
    ELSE LET diff == Head(order)
             g == grad_fn(st.heap, diff)
         IN IF g.panic
            THEN [st EXCEPT !.invoked = Append(@, diff), !.panicked = TRUE]
            ELSE Propagate([heap |-> Accumulate(st.heap, st.heap[diff].children, g.out, 1),
                            invoked |-> Append(st.invoked, diff),
                            panicked |-> FALSE],
                           Tail(order))

backward(h, root) ==
    LET seeded == Seed(h, root)
        sorted == topology_sort(seeded, root)
    IN Propagate([heap |-> seeded, invoked |-> <<>>, panicked |-> FALSE], Reverse(sorted))

\* ---------------------------------------------------------------- state
\* heap     the nodes allocated so far, by id
\* owned    the ids the caller still holds by value (not yet inside an Rc)
\* handles  the ids the caller holds an Rc handle to
\* hist     one record per backward call made: its root and the gradients,
\*          before and after, of the nodes whose grad_fn it invoked
\* last     the latest operation that made a node
\* clones   number of clones taken
\* panicked a panic unwound the program
NoOp == [op |-> "none", a |-> 0, b |-> 0, v |-> 0, res |-> 0]

Init ==
    /\ heap = <<>>
    /\ owned = {}
    /\ handles = {}
    /\ hist = <<>>
    /\ last = NoOp
    /\ clones = 0
    /\ panicked = FALSE

\* Differentiable::from(v)
CallFrom ==
    /\ ~panicked
    /\ Len(heap) < MaxNodes
    /\ \E v \in Values :
        /\ heap' = Append(heap, from(v))
        /\ owned' = owned \cup {Len(heap) + 1}
        /\ last' = [op |-> "from", a |-> 0, b |-> 0, v |-> v, res |-> Len(heap) + 1]
    /\ UNCHANGED <<handles, hist, clones, panicked>>

\* a * b on two values the caller holds: both are moved into fresh Rc cells
CallMul ==
    /\ ~panicked
    /\ Len(heap) < MaxNodes
    /\ \E a \in owned, b \in owned :
        /\ a # b
        /\ heap' = Append(heap, mul(heap, a, b))
        /\ owned' = (owned \ {a, b}) \cup {Len(heap) + 1}
        /\ last' = [op |-> "mul", a |-> a, b |-> b, v |-> 0, res |-> Len(heap) + 1]
    /\ UNCHANGED <<handles, hist, clones, panicked>>

\* a * v with a raw right-hand side: lift, then the node form
CallMulRaw ==
    /\ ~panicked
    /\ Len(heap) + 1 < MaxNodes
    /\ \E a \in owned, v \in Values :
        LET new_rhs == Len(heap) + 1
            lifted == Append(heap, from(v))
        IN /\ heap' = Append(lifted, mul(lifted, a, new_rhs))
           /\ owned' = (owned \ {a}) \cup {Len(heap) + 2}
           /\ last' = [op |-> "mulraw", a |-> a, b |-> new_rhs, v |-> v, res |-> Len(heap) + 2]
    /\ UNCHANGED <<handles, hist, clones, panicked>>

\* #[derive(Clone)] on a node the caller holds, by value or borrowed from
\* its cell: a copy of every field, the children handles shared with the
\* original
CallClone ==
    /\ ~panicked
    /\ Len(heap) < MaxNodes
    /\ clones < MaxClones
    /\ \E x \in owned \cup handles :
        /\ heap' = Append(heap, heap[x])
        /\ owned' = owned \cup {Len(heap) + 1}
        /\ last' = [op |-> "clone", a |-> x, b |-> 0, v |-> 0, res |-> Len(heap) + 1]
    /\ clones' = clones + 1
    /\ UNCHANGED <<handles, hist, panicked>>

\* backward(&root): root is a handle the caller holds, or a value the caller
\* moves into Rc::new(RefCell::new(..)) to call it
CallBackward ==
    /\ ~panicked
    /\ Len(hist) < MaxCalls
    /\ \E root \in owned \cup handles :
        LET r == backward(heap, root)
            reached == Range(r.invoked)
        IN /\ heap' = r.heap
           /\ panicked' = r.panicked
           /\ owned' = owned \ {root}
           /\ handles' = handles \cup {root}
           /\ hist' = Append(hist, [root |-> root,
                                    before |-> [n \in reached |-> heap[n].gradient],
                                    after |-> [n \in reached |-> r.heap[n].gradient]])
    /\ UNCHANGED <<last, clones>>

\* a struct literal written inside the module, where the fields are visible:
\* any existing nodes as children (a value is moved into a new Rc, a handle
\* is cloned, also out of another node's children), and either of the two
\* grad_fn closures the source has
StructLiteral ==
    /\ ~panicked
    /\ Len(heap) < MaxLiteralNodes
    /\ \E v \in Values, n \in 0..MaxArity, f \in {"from", "mul"} :
        \E cs \in [1..n -> Ids(heap)] :
            /\ heap' = Append(heap, Differentiable(v, Zero, cs, f))
            /\ owned' = (owned \ Range(cs)) \cup {Len(heap) + 1}
            /\ handles' = handles \cup Range(cs)
            /\ last' = [op |-> "literal", a |-> 0, b |-> 0, v |-> v, res |-> Len(heap) + 1]
    /\ UNCHANGED <<hist, clones, panicked>>

Next ==
    \/ CallFrom
    \/ CallMul
    \/ CallMulRaw
    \/ CallClone
    \/ CallBackward

Spec == Init /\ [][Next]_vars

NextLiteral ==
    \/ StructLiteral
    \/ CallBackward

SpecLiteral == Init /\ [][NextLiteral]_vars

\* ------------------------------------------------- notions the claims use
\* nodes reachable from r along children edges, r included
RECURSIVE Reach(_, _)
Reach(h, r) == {r} \cup UNION {Reach(h, c) : c \in Range(h[r].children)}

IsLeaf(h, n) == h[n].children = <<>> /\ h[n].grad_fn = "from"

\* length of the longest chain of operators below r
RECURSIVE Height(_, _)
Height(h, r) ==
    IF h[r].children = <<>> THEN 0
    ELSE 1 + CHOOSE m \in 0..Len(h) :
                 /\ \E c \in Range(h[r].children) : Height(h, c) = m
                 /\ \A c \in Range(h[r].children) : Height(h, c) <= m

\* number of distinct paths from r down to n
RECURSIVE Paths(_, _, _)
RECURSIVE PathsVia(_, _, _, _)
PathsVia(h, cs, n, i) ==
    IF i > Len(cs) THEN 0 ELSE Paths(h, cs[i], n) + PathsVia(h, cs, n, i + 1)

Paths(h, r, n) == IF r = n THEN 1 ELSE PathsVia(h, h[r].children, n, 1)

\* the partial derivative of r.value with respect to n.value in a graph of
\* binary products, summed over all paths
RECURSIVE Partial(_, _, _)
Partial(h, r, n) ==
    IF r = n THEN 1
    ELSE IF Len(h[r].children) # 2 THEN 0
    ELSE LET x == h[r].children[1]
             y == h[r].children[2]
         IN h[y].value * Partial(h, x, n) + h[x].value * Partial(h, y, n)

\* positions of node n in sequence s
Positions(s, n) == {i \in 1..Len(s) : s[i] = n}

\* call i of hist started with every gradient it reached at zero
Fresh(i) == \A n \in DOMAIN hist[i].before : hist[i].before[n] = Zero

\* no backward call has invoked node n's grad_fn (ids are never reused)
Untouched(n) == \A i \in 1..Len(hist) : n \notin DOMAIN hist[i].after

\* the order in which backward(root) invokes the grad_fn closures; it depends
\* on children and grad_fn only
InvokedBy(root) == backward(heap, root).invoked

\* grad_fn of n returns, and returns a number of values other than the
\* number of n's children
ArityMismatch(n) ==
    /\ ~grad_fn(heap, n).panic
    /\ Len(grad_fn(heap, n).out) # Len(heap[n].children)

\* ================================================================ claims

\* C1: for two leaves a and b with zero gradients and c = a * b, after one
\* backward(c) from zero gradients a.gradient = b.value, b.gradient = a.value
\* and c.gradient = one (for a = 2, b = 3: c.value = 6 and gradients 3, 2, 1).
C1_SingleMultiplyGradient ==
    \A i \in 1..Len(hist) :
        LET c == hist[i].root
        IN (/\ heap[c].grad_fn = "mul"
            /\ Len(heap[c].children) = 2
            /\ IsLeaf(heap, heap[c].children[1])
            /\ IsLeaf(heap, heap[c].children[2])
            /\ Fresh(i))
           => LET a == heap[c].children[1]
                  b == heap[c].children[2]
              IN /\ heap[c].value = heap[a].value * heap[b].value
                 /\ hist[i].after[a] = heap[b].value
                 /\ hist[i].after[b] = heap[a].value
                 /\ hist[i].after[c] = One

\* C2: in a product graph of depth two or more, one backward(root) from zero
\* gradients leaves in every node the partial derivative of root.value with
\* respect to it, summed over all paths when a node is shared; and for
\* d = (a * b) * a with a = 2, b = 3: d.value = 12, the gradient of a (over
\* its two occurrences) is 12 and b.gradient = 4.
C2_ChainRuleAcrossDepth ==
    \A i \in 1..Len(hist) :
        LET d == hist[i].root
        IN (Fresh(i) /\ Height(heap, d) >= 2) =>
            /\ (\E n \in Reach(heap, d) : Paths(heap, d, n) > 1)
                  => \A n \in Reach(heap, d) : hist[i].after[n] = Partial(heap, d, n)
            /\ (/\ Len(heap[d].children) = 2
                /\ Len(heap[heap[d].children[1]].children) = 2
                /\ IsLeaf(heap, heap[d].children[2])
                /\ IsLeaf(heap, heap[heap[d].children[1]].children[1])
                /\ IsLeaf(heap, heap[heap[d].children[1]].children[2])
                /\ heap[heap[d].children[2]].value = 2
                /\ heap[heap[heap[d].children[1]].children[1]].value = 2
                /\ heap[heap[heap[d].children[1]].children[2]].value = 3)
                  => LET c == heap[d].children[1]
                         a1 == heap[c].children[1]
                         b == heap[c].children[2]
                         a2 == heap[d].children[2]
                     IN /\ heap[d].value = 12
                        /\ (IF a1 = a2 THEN hist[i].after[a1]
                                       ELSE hist[i].after[a1] + hist[i].after[a2]) = 12
                        /\ hist[i].after[b] = 4

\* C3: topology_sort(root) holds every node reachable from root exactly
\* once, every child before each of its parents, and root last.
C3_TopologicalValidity ==
    \A r \in Ids(heap) :
        LET s == topology_sort(heap, r)
        IN /\ Range(s) = Reach(heap, r)
           /\ \A n \in Reach(heap, r) : Cardinality(Positions(s, n)) = 1
           /\ \A i, j \in 1..Len(s) : s[j] \in Range(heap[s[i]].children) => j < i
           /\ s[Len(s)] = r

\* C4: two backward calls in a row on the same root: the second adds to
\* every gradient what the first added, and when the first started from zero
\* gradients every leaf ends at exactly twice its gradient after the first.
C4_AdditiveReaccumulation ==
    \A i \in 1..(Len(hist) - 1) :
        hist[i + 1].root = hist[i].root =>
            /\ DOMAIN hist[i + 1].after = DOMAIN hist[i].after
            /\ \A n \in DOMAIN hist[i].after :
                  /\ hist[i + 1].before[n] = hist[i].after[n]
                  /\ hist[i + 1].after[n] - hist[i + 1].before[n]
                        = hist[i].after[n] - hist[i].before[n]
            /\ Fresh(i) =>
                  \A n \in DOMAIN hist[i].after :
                      IsLeaf(heap, n) => hist[i + 1].after[n] = 2 * hist[i].after[n]

\* C4 witness: a root called twice in a row from zero gradients, with a leaf
\* it reaches by two paths whose gradient was doubled
C4_Witness ==
    \E i \in 1..(Len(hist) - 1) :
        /\ hist[i + 1].root = hist[i].root
        /\ Fresh(i)
        /\ \E n \in DOMAIN hist[i].after :
              /\ IsLeaf(heap, n)
              /\ Paths(heap, hist[i].root, n) >= 2
              /\ hist[i].after[n] > 0
              /\ hist[i + 1].after[n] = 2 * hist[i].after[n]

\* C5: a backward call in which some invoked grad_fn returns a number of
\* contributions other than the number of the node's children panics.
C5_ArityMismatchAborts ==
    \A i \in 1..Len(hist) :
        (\E n \in DOMAIN hist[i].after : ArityMismatch(n)) => panicked

\* C6: from(v) succeeds and yields a node with value v, no children, a
\* grad_fn returning the empty sequence and, until a backward call reaches
\* it, gradient zero; before any backward call every leaf has gradient zero.
C6_LeafIdentity ==
    /\ last.op = "from" =>
          /\ ~panicked
          /\ heap[last.res].value = last.v
          /\ heap[last.res].children = <<>>
          /\ grad_fn(heap, last.res) = [panic |-> FALSE, out |-> <<>>]
          /\ Untouched(last.res) => heap[last.res].gradient = Zero
    /\ hist = <<>> =>
          \A n \in Ids(heap) : IsLeaf(heap, n) => heap[n].gradient = Zero

\* C6 witness: a value lifted after a backward call, not yet reached by one
C6_Witness ==
    /\ last.op = "from"
    /\ last.v = 3
    /\ hist # <<>>
    /\ Untouched(last.res)

\* C7: a * b yields a node with value a.value * b.value, children exactly
\* <<a, b>> and, until a backward call reaches it, gradient zero, whatever the
\* gradients of a and b; a * v yields the same with b a leaf lifted from v.
C7_MultiplyConstruction ==
    /\ last.op \in {"mul", "mulraw"} =>
          /\ heap[last.res].value = heap[last.a].value * heap[last.b].value
          /\ Len(heap[last.res].children) = 2
          /\ heap[last.res].children[1] = last.a
          /\ heap[last.res].children[2] = last.b
          /\ heap[last.res].grad_fn = "mul"
          /\ Untouched(last.res) => heap[last.res].gradient = Zero
    /\ last.op = "mulraw" =>
          /\ heap[last.res].value = heap[last.a].value * last.v
          /\ heap[last.b].value = last.v
          /\ heap[last.b].children = <<>>
          /\ grad_fn(heap, last.b) = [panic |-> FALSE, out |-> <<>>]
          /\ Untouched(last.b) => heap[last.b].gradient = Zero

\* C7 witness: a product whose left operand carried a gradient (copied by
\* clone from a node a backward call had reached) when it was multiplied
C7_Witness ==
    /\ last.op = "mul"
    /\ Untouched(last.a)
    /\ heap[last.a].gradient # Zero
    /\ Untouched(last.res)

\* C8: the grad_fn of a node made by multiply returns exactly
\* <<children[1].value, children[0].value>> (0-based), with no other factor.
C8_MultiplyGradientRule ==
    \A n \in Ids(heap) :
        (heap[n].grad_fn = "mul" /\ Len(heap[n].children) = 2) =>
            grad_fn(heap, n) =
                [panic |-> FALSE,
                 out |-> << heap[heap[n].children[2]].value,
                            heap[heap[n].children[1]].value >>]

\* C9: during backward(root) every node reachable from root has its grad_fn
\* invoked exactly once, and only after every reachable parent of it has had
\* its own invoked.
C9_InvokedOnceAfterParents ==
    \A k \in 1..Len(hist) :
        LET root == hist[k].root
            inv == InvokedBy(root)
        IN \A n \in Reach(heap, root) :
              /\ Cardinality(Positions(inv, n)) = 1
              /\ \A p \in Reach(heap, root) :
                    n \in Range(heap[p].children) =>
                        \A i \in Positions(inv, n), j \in Positions(inv, p) : j < i

\* C10: no step changes the value, the children or the grad_fn of a node,
\* and a backward call leaves every node not reachable from its root
\* unchanged, gradient included, and allocates nothing.
C10_BackwardFrame ==
    [][ /\ \A n \in Ids(heap) :
              /\ heap'[n].value = heap[n].value
              /\ heap'[n].children = heap[n].children
              /\ heap'[n].grad_fn = heap[n].grad_fn
        /\ hist' # hist =>
              /\ Len(heap') = Len(heap)
              /\ \A n \in Ids(heap) \ Reach(heap, hist'[Len(hist')].root) :
                    heap'[n] = heap[n]
      ]_vars

\* C10 witness: after a backward call on a root with children, a node
\* outside the root's graph still carries the gradient of an earlier call
C10_Witness ==
    /\ hist # <<>>
    /\ LET root == hist[Len(hist)].root
       IN /\ heap[root].children # <<>>
          /\ \E n \in Ids(heap) \ Reach(heap, root) : heap[n].gradient # Zero

====
